---------------------------- MODULE Spec2Model ----------------------------
(***************************************************************************)
(* Model of flare (src/flare/core.py): the provisioning / supervision /    *)
(* teardown lifecycle of one run of main().                                *)
(*                                                                         *)
(* Names are sequences of labels: the string "demo.example.com" is         *)
(* <<"demo", "example.com">>, so "a name contains a dot" is "it has more   *)
(* than one label" and  s.startswith(t + ".")  is "t is a proper prefix of *)
(* s".  A zone's domain name is one label.                                 *)
(*                                                                         *)
(* Every remote call, file operation and process operation answers with a  *)
(* nondeterministic outcome: "ok", "err" (a response that is not the       *)
(* success the code checks for) or "raise" (the call raises).              *)
(***************************************************************************)
EXTENDS Integers, Sequences, FiniteSets, TLC

\* ------------------------------------------------------------------ bounds
\* longest zone list the account listing returns
MaxAcctZones == 2
\* number of DNS records that exist in the zones before the run
MaxPreRecords == 1
\* the clock is read in ticks 0..MaxTick, TicksPerSecond of them to a second
MaxTick == 3
TicksPerSecond == 2
\* longest CLOUDFLARE_API_KEY of the credential specification
MaxKeyLen == 3
\* number of calls of the legacy create_tunnel that return in one process
MaxLegacyCalls == 2

\* --------------------------------------------------------------- constants
\* the zone id written into create_tunnel_config and run_cloudflared
zone_id == "a2dbaff918c783a734197864e6cb7190"
\* the default domain of get_account_domain
DefaultDomain == <<"trycloudflare.com">>

Zones == {zone_id, "zoneA"}
ZoneName(z) == <<z>>

\* the values of CLOUDFLARE_API_KEY a run is started with (characters)
ApiKeys ==
    { << >>,
      <<"t", "o", "k">>,
      <<"a", "@", "b">> }

\* the tunnel names main() hands to provisioning: a plain name and a name
\* that is itself a full domain inside the hardcoded zone
TunnelNames == { <<"demo">>, <<"app", zone_id>> }

AcctZoneLists ==
    { s \in UNION { [1..n -> Zones] : n \in 0..MaxAcctZones } :
        \A i, j \in DOMAIN s : i # j => s[i] # s[j] }

\* ----------------------------------------------------------- pure helpers
Contains(s, c) == \E i \in DOMAIN s : s[i] = c
Count(s, c) == Cardinality({ i \in DOMAIN s : s[i] = c })

\* str.startswith(t + ".") on label sequences
StartsWithDot(s, t) == Len(s) > Len(t) /\ SubSeq(s, 1, Len(t)) = t
EndsWith(s, t) == Len(s) >= Len(t) /\ SubSeq(s, Len(s) - Len(t) + 1, Len(s)) = t

\* the provider stores a record under its fully qualified name
Expand(name, z) == IF EndsWith(name, ZoneName(z)) THEN name ELSE name \o ZoneName(z)

\* get_headers: the header set, or the ValueError of the tuple unpacking
get_headers(k) ==
    IF Contains(k, "@") \/ Contains(k, ".")
    THEN IF Count(k, ":") = 1
         THEN LET i == CHOOSE j \in DOMAIN k : k[j] = ":"
              IN  [kind |-> "emailkey", email |-> SubSeq(k, 1, i - 1),
                   key |-> SubSeq(k, i + 1, Len(k))]
         ELSE [kind |-> "raise"]
    ELSE [kind |-> "bearer", token |-> k]

\* the records a zone may hold before the run: the record an earlier,
\* identical DNS creation call left behind, a user's own record below the
\* tunnel name, and an unrelated record
PreCandidates(tn) ==
    { [id |-> <<"prev">>, zone |-> zone_id, name |-> Expand(tn, zone_id)] }
    \cup { [id |-> <<"user", z>>, zone |-> z,
            name |-> tn \o <<"staging">> \o ZoneName(z)] : z \in Zones }
    \cup { [id |-> <<"other", z>>, zone |-> z,
            name |-> <<"www">> \o ZoneName(z)] : z \in Zones }

\* the port and --local-addr values a run is started with
ArgSets == { [port |-> 8080, local_addr |-> "localhost"],
             [port |-> 3000, local_addr |-> "127.0.0.1"] }

\* the ids the provider gives to the tunnels a process creates; ids are
\* opaque to the program, so a new tunnel gets one fixed id not yet in use
TunnelIds == { "tid-1", "tid-2" }
NewTunnelId(ts) == CHOOSE id \in TunnelIds \ { t.id : t \in ts } : TRUE

\* the naming inputs of a run whose tunnel name is given (see TunnelNames)
NoNaming == [given |-> FALSE, name |-> << >>, no_timestamp |-> FALSE,
             t1 |-> 0, t2 |-> 0, out |-> << >>]

RunRecordId == <<"run">>
RecIds == { RunRecordId, <<"prev">> }
          \cup { <<"user", z>> : z \in Zones } \cup { <<"other", z>> : z \in Zones }

\* ------------------------------------------------------------------- state
VARIABLES
    apiKey,            \* CLOUDFLARE_API_KEY
    tunnel_name,       \* main: tunnel_name
    acctZones,         \* what GET /accounts/<id>/zones answers when it succeeds
    dnsRecords,        \* provider: the DNS records that exist
    tunnelExists,      \* provider: the tunnel object of this run exists
    tokenFile,         \* /tmp/cloudflared_token_<id>.txt exists
    hostname,          \* create_tunnel_config: hostname (<< >> before)
    proc,              \* the cloudflared subprocess: "none", "running", "exited"
    atexitRegistered,  \* atexit.register(cleanup) has run
    sigHandler,        \* SIGINT disposition: "default" or "custom"
    pc,                \* position of the main thread
    exitCode,          \* exit status of the process, -1 while none is set
    tdCaller,          \* who called cleanup(): "none", "signal", "atexit"
    tdZones,           \* delete_tunnel_and_dns: zones still to scan
    tdPending,         \* delete_tunnel_and_dns: listed records still to delete
    tdDeleted,         \* delete_tunnel_and_dns: dns_records_deleted
    steps,             \* history: provisioning steps started, with outcome
    fatalAt,           \* history: the step whose failure aborted the run
    sigSeen,           \* history: a SIGINT was delivered
    sigHandled,        \* history: signal_handler was invoked
    tdRuns,            \* history: executions of the cleanup() body started
    tdDone,            \* history: executions of cleanup() that returned
    tdRaised,          \* history: an exception left cleanup()
    nTunnelDel,        \* history: delete-tunnel requests issued
    dnsDelReq,         \* history: record id -> delete requests issued
    termSent,          \* history: process.terminate() calls
    tokenWritten,      \* history: the token file was written
    scanned,           \* history: zones whose DNS listing was requested
    allOk,             \* history: every outcome so far was "ok"
    reported,          \* history: the count printed by the last cleanup()
    args,              \* main: args.port and args.local_addr
    tunnel_id,         \* create_tunnel_with_credentials: tunnel_id ("" before)
    tunnels,           \* provider: the tunnels GET /accounts/<id>/tunnels lists
    nCfdCreate,        \* history: POST .../cfd_tunnel requests issued
    nLegacyCreate,     \* history: POST .../tunnels requests issued
    nList,             \* history: GET .../tunnels requests issued
    legacyRet,         \* history: the ids the calls of create_tunnel returned
    putConfigs,        \* history: the config_data bodies sent by PUT
    dnsPosts,          \* history: the DNS creation requests issued
    headers,           \* the result of the last get_headers() call
    naming,            \* main: the arguments and clock of tunnel naming
    tdEnumOut          \* delete_tunnel_and_dns: outcome of the zone listing

envVars  == <<apiKey, tunnel_name, acctZones, args>>
tunVars  == <<tunnel_id, tunnels, nCfdCreate, nLegacyCreate, nList, legacyRet>>
provVars == <<dnsRecords, tunnelExists>>
locVars  == <<tokenFile, hostname, proc, atexitRegistered, sigHandler>>
tdVars   == <<tdCaller, tdZones, tdPending, tdDeleted>>
tdHist   == <<tdRuns, tdDone, tdRaised, nTunnelDel, dnsDelReq, termSent,
              scanned, reported>>
runHist  == <<steps, fatalAt, sigSeen, sigHandled, tokenWritten>>
vars == <<envVars, provVars, locVars, tdVars, tdHist, runHist, pc, exitCode, allOk,
          tunVars, putConfigs, dnsPosts, headers, naming, tdEnumOut>>

MainPcs == { "api_key", "account", "tunnel", "token", "write", "domain", "put",
             "dns", "ready", "launch", "register", "sighandler", "wait" }

\* the process before main() has done anything
Idle ==
    /\ tunnelExists = FALSE
    /\ tokenFile = FALSE
    /\ hostname = << >>
    /\ proc = "none"
    /\ atexitRegistered = FALSE
    /\ sigHandler = "default"
    /\ pc = "api_key"
    /\ exitCode = -1
    /\ tdCaller = "none"
    /\ tdZones = << >>
    /\ tdPending = {}
    /\ tdDeleted = 0
    /\ steps = << >>
    /\ fatalAt = "none"
    /\ sigSeen = FALSE
    /\ sigHandled = FALSE
    /\ tdRuns = 0
    /\ tdDone = 0
    /\ tdRaised = FALSE
    /\ nTunnelDel = 0
    /\ dnsDelReq = [i \in RecIds |-> 0]
    /\ termSent = 0
    /\ tokenWritten = FALSE
    /\ scanned = {}
    /\ allOk = TRUE
    /\ reported = -1
    /\ tunnel_id = ""
    /\ nCfdCreate = 0
    /\ nLegacyCreate = 0
    /\ nList = 0
    /\ legacyRet = << >>
    /\ putConfigs = << >>
    /\ dnsPosts = << >>
    /\ headers = [kind |-> "none"]
    /\ tdEnumOut = "none"

Init ==
    /\ apiKey \in ApiKeys
    /\ tunnel_name \in TunnelNames
    /\ acctZones \in AcctZoneLists
    /\ args \in ArgSets
    /\ dnsRecords \in { S \in SUBSET PreCandidates(tunnel_name) :
                          Cardinality(S) <= MaxPreRecords }
    /\ tunnels = {}
    /\ naming = NoNaming
    /\ Idle

\* ------------------------------------------------------------ provisioning
\* a provisioning step that ran to its end with outcome out
Step(name, out) ==
    /\ steps' = Append(steps, [step |-> name, out |-> out])
    /\ allOk' = (allOk /\ out = "ok")

\* sys.exit(1) inside main's try, or an exception main's handlers turn
\* into sys.exit(1)
Fatal(name) ==
    /\ pc' = "exiting"
    /\ exitCode' = 1
    /\ fatalAt' = name

Continue(next) ==
    /\ pc' = next
    /\ UNCHANGED <<exitCode, fatalAt>>

\* main: api_key = get_api_key()
GetApiKey ==
    /\ pc = "api_key"
    /\ IF apiKey = << >>
       THEN Fatal("credential") /\ allOk' = FALSE
       ELSE Continue("account") /\ UNCHANGED allOk
    /\ UNCHANGED <<envVars, tunVars, putConfigs, dnsPosts, headers, naming, tdEnumOut,
                   provVars, locVars, tdVars, tdHist, steps, sigSeen,
                   sigHandled, tokenWritten>>

GetAccountId_noraise ==
    /\ pc = "account"
    /\ headers' = get_headers(apiKey)
    /\ \E out \in {"ok", "err", "empty", "raise"} :
          /\ Step("account", out)
          /\ IF out = "ok" THEN Continue("tunnel") ELSE Fatal("account")
    /\ UNCHANGED <<envVars, tunVars, putConfigs, dnsPosts, naming, tdEnumOut,
                   provVars, locVars, tdVars, tdHist, sigSeen,
                   sigHandled, tokenWritten>>

\* get_account_id: "ok" answers 200 with an account, "err" a non-200
\* status, "empty" a 200 with no account
GetAccountId ==
    /\ pc = "account"
    /\ headers' = get_headers(apiKey)
    /\ IF get_headers(apiKey).kind = "raise"
       THEN Fatal("credential") /\ allOk' = FALSE /\ UNCHANGED steps
       ELSE \E out \in {"ok", "err", "empty", "raise"} :
               /\ Step("account", out)
               /\ IF out = "ok" THEN Continue("tunnel") ELSE Fatal("account")
    /\ UNCHANGED <<envVars, tunVars, putConfigs, dnsPosts, naming, tdEnumOut,
                   provVars, locVars, tdVars, tdHist, sigSeen,
                   sigHandled, tokenWritten>>

\* create_tunnel_with_credentials: the POST that creates the tunnel;
\* "noid" answers 200 without an id
CreateTunnel ==
    /\ pc = "tunnel"
    /\ \E out \in {"ok", "err", "noid", "raise"} :
          /\ Step("tunnel", out)
          /\ tunnelExists' = (out = "ok")
          /\ tunnel_id' = IF out = "ok" THEN NewTunnelId(tunnels) ELSE tunnel_id
          /\ IF out = "ok" THEN Continue("token") ELSE Fatal("tunnel")
    /\ nCfdCreate' = nCfdCreate + 1
    /\ UNCHANGED <<tunnels, nLegacyCreate, nList, legacyRet>>
    /\ UNCHANGED <<envVars, putConfigs, dnsPosts, headers, naming, tdEnumOut,
                   dnsRecords, locVars, tdVars, tdHist, sigSeen,
                   sigHandled, tokenWritten>>

FetchToken_continue ==
    /\ pc = "token"
    /\ \E out \in {"ok", "err", "notoken", "raise"} :
          /\ Step("token", out)
          /\ Continue("write")
    /\ UNCHANGED <<envVars, tunVars, putConfigs, dnsPosts, headers, naming, tdEnumOut,
                   provVars, locVars, tdVars, tdHist, sigSeen,
                   sigHandled, tokenWritten>>

FetchToken_cleanup ==
    /\ pc = "token"
    /\ \E out \in {"ok", "err", "notoken", "raise"} :
          /\ Step("token", out)
          /\ IF out = "ok"
             THEN Continue("write") /\ UNCHANGED <<tunnelExists, nTunnelDel>>
             ELSE Fatal("token") /\ tunnelExists' = FALSE
                  /\ nTunnelDel' = nTunnelDel + 1
    /\ UNCHANGED <<envVars, tunVars, putConfigs, dnsPosts, headers, naming, tdEnumOut,
                   dnsRecords, locVars, tdVars, tdRuns, tdDone, tdRaised,
                   dnsDelReq, termSent, scanned, reported, sigSeen, sigHandled,
                   tokenWritten>>

\* create_tunnel_with_credentials: the GET of the run token; "notoken"
\* answers 200 without a token
FetchToken ==
    /\ pc = "token"
    /\ \E out \in {"ok", "err", "notoken", "raise"} :
          /\ Step("token", out)
          /\ IF out = "ok" THEN Continue("write") ELSE Fatal("token")
    /\ UNCHANGED <<envVars, tunVars, putConfigs, dnsPosts, headers, naming, tdEnumOut,
                   provVars, locVars, tdVars, tdHist, sigSeen,
                   sigHandled, tokenWritten>>

\* create_tunnel_with_credentials: open(token_file, "w") and write
WriteTokenFile ==
    /\ pc = "write"
    /\ \E out \in {"ok", "raise"} :
          /\ Step("write", out)
          /\ tokenFile' = (out = "ok")
          /\ tokenWritten' = (out = "ok")
          /\ IF out = "ok" THEN Continue("domain") ELSE Fatal("write")
    /\ UNCHANGED <<envVars, tunVars, putConfigs, dnsPosts, headers, naming, tdEnumOut,
                   provVars, hostname, proc, atexitRegistered, sigHandler,
                   tdVars, tdHist, sigSeen, sigHandled>>

GetAccountDomain_last ==
    /\ pc = "domain"
    /\ \E out \in {"ok", "err", "raise"} :
          /\ Step("domain", out)
          /\ IF out = "raise"
             THEN Fatal("domain") /\ UNCHANGED hostname
             ELSE /\ Continue("put")
                  /\ hostname' = tunnel_name \o
                        (IF out = "ok" /\ acctZones # << >>
                         THEN ZoneName(acctZones[Len(acctZones)]) ELSE DefaultDomain)
    /\ UNCHANGED <<envVars, tunVars, putConfigs, dnsPosts, headers, naming, tdEnumOut,
                   provVars, tokenFile, proc, atexitRegistered, sigHandler,
                   tdVars, tdHist, sigSeen, sigHandled, tokenWritten>>

\* get_account_domain and the hostname of create_tunnel_config; "err" is
\* a non-200 status or a body that does not parse
GetAccountDomain ==
    /\ pc = "domain"
    /\ \E out \in {"ok", "err", "raise"} :
          /\ Step("domain", out)
          /\ IF out = "raise"
             THEN Fatal("domain") /\ UNCHANGED hostname
             ELSE /\ Continue("put")
                  /\ hostname' = tunnel_name \o
                        (IF out = "ok" /\ acctZones # << >>
                         THEN ZoneName(acctZones[1]) ELSE DefaultDomain)
    /\ UNCHANGED <<envVars, tunVars, putConfigs, dnsPosts, headers, naming, tdEnumOut,
                   provVars, tokenFile, proc, atexitRegistered, sigHandler,
                   tdVars, tdHist, sigSeen, sigHandled, tokenWritten>>

config_data_nofallback(h, addr, port) ==
    [ingress |-> << [hostname |-> h,
                     service |-> [scheme |-> "http", addr |-> addr, port |-> port]] >>]

\* create_tunnel_config: config_data, the body of the ingress PUT
config_data(h, addr, port) ==
    [ingress |-> << [hostname |-> h,
                     service |-> [scheme |-> "http", addr |-> addr, port |-> port]],
                    [service |-> "http_status:404"] >>]

\* create_tunnel_config: dns_data, the body of the DNS creation POST
dns_data(tn, tid) ==
    [type |-> "CNAME", name |-> tn, content |-> <<tid, "cfargotunnel.com">>,
     ttl |-> 1, proxied |-> TRUE]

PutIngress_fatal ==
    /\ pc = "put"
    /\ putConfigs' = Append(putConfigs,
                          config_data(hostname, args.local_addr, args.port))
    /\ \E out \in {"ok", "err", "raise"} :
          /\ Step("put", out)
          /\ IF out = "ok" THEN Continue("dns") ELSE Fatal("put")
    /\ UNCHANGED <<envVars, tunVars, dnsPosts, headers, naming, tdEnumOut,
                   provVars, locVars, tdVars, tdHist, sigSeen,
                   sigHandled, tokenWritten>>

\* create_tunnel_config: the PUT of the ingress configuration; the
\* response is only printed
PutIngress ==
    /\ pc = "put"
    /\ putConfigs' = Append(putConfigs,
                          config_data(hostname, args.local_addr, args.port))
    /\ \E out \in {"ok", "err", "raise"} :
          /\ Step("put", out)
          /\ IF out = "raise" THEN Fatal("put") ELSE Continue("dns")
    /\ UNCHANGED <<envVars, tunVars, dnsPosts, headers, naming, tdEnumOut,
                   provVars, locVars, tdVars, tdHist, sigSeen,
                   sigHandled, tokenWritten>>

\* the answers the provider can give to the DNS creation POST
DnsOutcomes ==
    IF \E r \in dnsRecords : r.zone = zone_id /\ r.name = Expand(tunnel_name, zone_id)
    THEN {"exists", "err", "raise"}
    ELSE {"ok", "err", "raise"}

DnsCreate_fatal ==
    /\ pc = "dns"
    /\ dnsPosts' = Append(dnsPosts, [zone |-> zone_id,
                                    data |-> dns_data(tunnel_name, tunnel_id)])
    /\ \E out \in DnsOutcomes :
          /\ Step("dns", out)
          /\ dnsRecords' = IF out = "ok"
                THEN dnsRecords \cup { [id |-> RunRecordId, zone |-> zone_id,
                      name |-> Expand(dns_data(tunnel_name, tunnel_id).name, zone_id)] }
                ELSE dnsRecords
          /\ IF out = "ok" THEN Continue("ready") ELSE Fatal("dns")
    /\ UNCHANGED <<envVars, tunVars, putConfigs, headers, naming, tdEnumOut,
                   tunnelExists, locVars, tdVars, tdHist, sigSeen,
                   sigHandled, tokenWritten>>

\* create_tunnel_config: the POST of the CNAME record, named tunnel_name,
\* into the hardcoded zone; "exists" is the provider's 81053/81057 answer
DnsCreate ==
    /\ pc = "dns"
    /\ dnsPosts' = Append(dnsPosts, [zone |-> zone_id,
                                    data |-> dns_data(tunnel_name, tunnel_id)])
    /\ \E out \in DnsOutcomes :
          /\ Step("dns", out)
          /\ dnsRecords' = IF out = "ok"
                THEN dnsRecords \cup { [id |-> RunRecordId, zone |-> zone_id,
                      name |-> Expand(dns_data(tunnel_name, tunnel_id).name, zone_id)] }
                ELSE dnsRecords
          /\ Continue("ready")
    /\ UNCHANGED <<envVars, tunVars, putConfigs, headers, naming, tdEnumOut,
                   tunnelExists, locVars, tdVars, tdHist, sigSeen,
                   sigHandled, tokenWritten>>

\* main: the "Tunnel created successfully" block
Ready ==
    /\ pc = "ready"
    /\ steps' = Append(steps, [step |-> "ready", out |-> "ok"])
    /\ Continue("launch")
    /\ UNCHANGED <<envVars, tunVars, putConfigs, dnsPosts, headers, naming, tdEnumOut,
                   provVars, locVars, tdVars, tdHist, sigSeen, sigHandled,
                   tokenWritten, allOk>>

\* ------------------------------------------------------------- supervision
\* run_cloudflared: read the token file and subprocess.Popen
Launch ==
    /\ pc = "launch"
    /\ \E out \in {"ok", "raise"} :
          /\ allOk' = (allOk /\ out = "ok")
          /\ IF out = "ok"
             THEN proc' = "running" /\ Continue("register")
             ELSE proc' = proc /\ Fatal("launch")
    /\ UNCHANGED <<envVars, tunVars, putConfigs, dnsPosts, headers, naming, tdEnumOut,
                   provVars, tokenFile, hostname, atexitRegistered,
                   sigHandler, tdVars, tdHist, steps, sigSeen, sigHandled,
                   tokenWritten>>

\* run_cloudflared: atexit.register(cleanup)
RegisterAtexit ==
    /\ pc = "register"
    /\ atexitRegistered' = TRUE
    /\ pc' = "sighandler"
    /\ UNCHANGED <<envVars, tunVars, putConfigs, dnsPosts, headers, naming, tdEnumOut,
                   provVars, tokenFile, hostname, proc, sigHandler, tdVars,
                   tdHist, runHist, exitCode, allOk>>

\* run_cloudflared: signal.signal(SIGINT, signal_handler), then return
RegisterSignal ==
    /\ pc = "sighandler"
    /\ sigHandler' = "custom"
    /\ pc' = "wait"
    /\ UNCHANGED <<envVars, tunVars, putConfigs, dnsPosts, headers, naming, tdEnumOut,
                   provVars, tokenFile, hostname, proc, atexitRegistered,
                   tdVars, tdHist, runHist, exitCode, allOk>>

\* the subprocess ends by itself
SubprocessExits ==
    /\ proc = "running"
    /\ pc # "exited"
    /\ proc' = "exited"
    /\ UNCHANGED <<envVars, tunVars, putConfigs, dnsPosts, headers, naming, tdEnumOut,
                   provVars, tokenFile, hostname, atexitRegistered,
                   sigHandler, tdVars, tdHist, runHist, pc, exitCode, allOk>>

\* main: process.wait() returns and main returns
WaitReturns ==
    /\ pc = "wait"
    /\ proc = "exited"
    /\ pc' = "exiting"
    /\ exitCode' = 0
    /\ UNCHANGED <<envVars, tunVars, putConfigs, dnsPosts, headers, naming, tdEnumOut,
                   provVars, locVars, tdVars, tdHist, runHist, allOk>>

\* the first statements of cleanup() are about to run
StartCleanup(caller) ==
    /\ pc' = "td_remove"
    /\ tdCaller' = caller
    /\ tdRuns' = tdRuns + 1
    /\ tdZones' = << >>
    /\ tdPending' = {}
    /\ tdDeleted' = 0
    /\ tdEnumOut' = "none"

\* A SIGINT reaches the main thread while it runs main().  Under the
\* default disposition it is a KeyboardInterrupt, which only the
\* try around process.wait() catches; under signal_handler it calls
\* cleanup().
Sigint ==
    /\ pc \in MainPcs
    /\ sigSeen' = TRUE
    /\ IF sigHandler = "custom"
       THEN /\ StartCleanup("signal")
            /\ sigHandled' = TRUE
            /\ UNCHANGED exitCode
       ELSE /\ pc' = "exiting"
            /\ exitCode' \in (IF pc = "wait" THEN {0} ELSE {1, 130})
            /\ UNCHANGED <<tdVars, tdRuns, sigHandled, tdEnumOut>>
    /\ UNCHANGED <<envVars, tunVars, putConfigs, dnsPosts, headers, naming,
                   provVars, locVars, tdDone, tdRaised, nTunnelDel,
                   dnsDelReq, termSent, scanned, reported, steps, fatalAt,
                   tokenWritten, allOk>>

\* interpreter shutdown: the registered exit functions run
RunAtexit ==
    /\ pc = "exiting"
    /\ IF atexitRegistered
       THEN StartCleanup("atexit")
       ELSE pc' = "exited" /\ UNCHANGED <<tdVars, tdRuns, tdEnumOut>>
    /\ UNCHANGED <<envVars, tunVars, putConfigs, dnsPosts, headers, naming,
                   provVars, locVars, tdDone, tdRaised, nTunnelDel,
                   dnsDelReq, termSent, scanned, reported, runHist, exitCode, allOk>>

\* ---------------------------------------------------------------- teardown
\* an exception leaves cleanup(): inside signal_handler it surfaces in
\* main's try (except Exception: sys.exit(1)); inside the exit function
\* the interpreter prints it and goes on exiting
CleanupRaises ==
    /\ tdRaised' = TRUE
    /\ tdCaller' = "none"
    /\ IF tdCaller = "signal"
       THEN pc' = "exiting" /\ exitCode' = 1
       ELSE pc' = "exited" /\ UNCHANGED exitCode

\* cleanup: if os.path.exists(token_file): os.remove(token_file)
TdRemove ==
    /\ pc = "td_remove"
    /\ IF tokenFile
       THEN \E out \in {"ok", "raise"} :
               /\ allOk' = (allOk /\ out = "ok")
               /\ IF out = "ok"
                  THEN /\ tokenFile' = FALSE
                       /\ pc' = "td_terminate"
                       /\ UNCHANGED <<exitCode, tdCaller, tdRaised>>
                  ELSE /\ CleanupRaises
                       /\ UNCHANGED tokenFile
       ELSE /\ pc' = "td_terminate"
            /\ UNCHANGED <<tokenFile, exitCode, tdCaller, tdRaised, allOk>>
    /\ UNCHANGED <<envVars, tunVars, putConfigs, dnsPosts, headers, naming, tdEnumOut,
                   provVars, hostname, proc, atexitRegistered, sigHandler,
                   tdZones, tdPending, tdDeleted, tdRuns, tdDone, nTunnelDel,
                   dnsDelReq, termSent, scanned, reported, runHist>>

TdTerminate_skipped ==
    /\ pc = "td_terminate"
    /\ pc' = "td_enum"
    /\ UNCHANGED <<termSent, exitCode, tdCaller, tdRaised, allOk>>
    /\ UNCHANGED <<envVars, tunVars, putConfigs, dnsPosts, headers, naming, tdEnumOut,
                   provVars, locVars, tdZones, tdPending, tdDeleted,
                   tdRuns, tdDone, nTunnelDel, dnsDelReq, scanned, reported,
                   runHist>>

\* cleanup: if process.poll() is None: process.terminate()
TdTerminate ==
    /\ pc = "td_terminate"
    /\ IF proc = "running"
       THEN \E out \in {"ok", "raise"} :
               /\ allOk' = (allOk /\ out = "ok")
               /\ IF out = "ok"
                  THEN /\ termSent' = termSent + 1
                       /\ pc' = "td_enum"
                       /\ UNCHANGED <<exitCode, tdCaller, tdRaised>>
                  ELSE /\ CleanupRaises
                       /\ UNCHANGED termSent
       ELSE /\ pc' = "td_enum"
            /\ UNCHANGED <<termSent, exitCode, tdCaller, tdRaised, allOk>>
    /\ UNCHANGED <<envVars, tunVars, putConfigs, dnsPosts, headers, naming, tdEnumOut,
                   provVars, locVars, tdZones, tdPending, tdDeleted,
                   tdRuns, tdDone, nTunnelDel, dnsDelReq, scanned, reported,
                   runHist>>

\* where the zone loop of delete_tunnel_and_dns goes with zs left to scan
ScanPc(zs) == IF zs = << >> THEN "td_tunnel" ELSE "td_list_exact"

TdEnum_nofallback ==
    /\ pc = "td_enum"
    /\ \E out \in {"ok", "err", "raise"} :
          LET allZones == IF out = "ok" THEN acctZones ELSE << >>
          IN  /\ allOk' = (allOk /\ out = "ok")
              /\ tdEnumOut' = IF out = "ok" THEN "listed" ELSE "failed"
              /\ tdZones' = allZones
              /\ pc' = ScanPc(allZones)
    /\ UNCHANGED <<envVars, tunVars, putConfigs, dnsPosts, headers, naming,
                   provVars, locVars, tdCaller, tdPending, tdDeleted,
                   tdHist, runHist, exitCode>>

\* delete_tunnel_and_dns, part 1: the zones to scan
TdEnum ==
    /\ pc = "td_enum"
    /\ \E out \in {"ok", "err", "raise"} :
          LET listed   == IF out = "ok" THEN acctZones ELSE <<zone_id>>
              allZones == IF listed = << >> THEN <<zone_id>> ELSE listed
          IN  /\ allOk' = (allOk /\ out = "ok")
              /\ tdEnumOut' = IF out = "ok" THEN "listed" ELSE "failed"
              /\ tdZones' = allZones
              /\ pc' = ScanPc(allZones)
    /\ UNCHANGED <<envVars, tunVars, putConfigs, dnsPosts, headers, naming,
                   provVars, locVars, tdCaller, tdPending, tdDeleted,
                   tdHist, runHist, exitCode>>

\* the zone loop moves on to the next zone
NextZone ==
    /\ tdZones' = Tail(tdZones)
    /\ tdPending' = {}
    /\ pc' = ScanPc(Tail(tdZones))

\* part 2, first listing: GET dns_records?name=<tunnel_name>, which the
\* provider answers with the records of exactly that name
TdListExact ==
    /\ pc = "td_list_exact"
    /\ scanned' = scanned \cup {Head(tdZones)}
    /\ \E out \in {"ok", "err", "raise"} :
          LET found == { r \in dnsRecords :
                            r.zone = Head(tdZones) /\ r.name = tunnel_name }
          IN  /\ allOk' = (allOk /\ out = "ok")
              /\ IF out = "raise"
                 THEN NextZone
                 ELSE /\ tdPending' = (IF out = "ok" THEN found ELSE {})
                      /\ pc' = IF out = "ok" /\ found # {}
                               THEN "td_del_exact" ELSE "td_list_prefix"
                      /\ UNCHANGED tdZones
    /\ UNCHANGED <<envVars, tunVars, putConfigs, dnsPosts, headers, naming, tdEnumOut,
                   provVars, locVars, tdCaller, tdDeleted, tdRuns, tdDone,
                   tdRaised, nTunnelDel, dnsDelReq, termSent, reported, runHist,
                   exitCode>>

\* one DELETE dns_records/<id>; after is where the loop over the listed
\* records leads when it is over
DeleteRecord(after) ==
    \E r \in tdPending :
       \E out \in (IF r \in dnsRecords THEN {"ok", "err", "raise"}
                                       ELSE {"err", "raise"}) :
          /\ allOk' = (allOk /\ out = "ok")
          /\ dnsDelReq' = [dnsDelReq EXCEPT ![r.id] = @ + 1]
          /\ dnsRecords' = IF out = "ok" THEN dnsRecords \ {r} ELSE dnsRecords
          /\ tdDeleted' = IF out = "ok" THEN tdDeleted + 1 ELSE tdDeleted
          /\ IF out = "raise"
             THEN NextZone
             ELSE /\ tdPending' = tdPending \ {r}
                  /\ IF tdPending \ {r} = {}
                     THEN after
                     ELSE UNCHANGED <<pc, tdZones>>

\* part 2, the deletes of the first listing
TdDelExact ==
    /\ pc = "td_del_exact"
    /\ DeleteRecord(pc' = "td_list_prefix" /\ UNCHANGED tdZones)
    /\ UNCHANGED <<envVars, tunVars, putConfigs, dnsPosts, headers, naming, tdEnumOut,
                   tunnelExists, locVars, tdCaller, tdRuns, tdDone,
                   tdRaised, nTunnelDel, termSent, scanned, reported, runHist,
                   exitCode>>

TdListPrefix_exact_only ==
    /\ pc = "td_list_prefix"
    /\ IF Len(tunnel_name) > 1
       THEN NextZone /\ UNCHANGED allOk
       ELSE \E out \in {"ok", "err", "raise"} :
               LET found == { r \in dnsRecords :
                                 /\ r.zone = Head(tdZones)
                                 /\ r.name = tunnel_name }
               IN  /\ allOk' = (allOk /\ out = "ok")
                   /\ IF out = "ok" /\ found # {}
                      THEN /\ tdPending' = found
                           /\ pc' = "td_del_prefix"
                           /\ UNCHANGED tdZones
                      ELSE NextZone
    /\ UNCHANGED <<envVars, tunVars, putConfigs, dnsPosts, headers, naming, tdEnumOut,
                   provVars, locVars, tdCaller, tdDeleted, tdHist, runHist,
                   exitCode>>

\* part 2, second listing: all records of the zone, kept when the name
\* starts with "<tunnel_name>." or equals it; skipped for a dotted name
TdListPrefix ==
    /\ pc = "td_list_prefix"
    /\ IF Len(tunnel_name) > 1
       THEN NextZone /\ UNCHANGED allOk
       ELSE \E out \in {"ok", "err", "raise"} :
               LET found == { r \in dnsRecords :
                                 /\ r.zone = Head(tdZones)
                                 /\ \/ StartsWithDot(r.name, tunnel_name)
                                    \/ r.name = tunnel_name }
               IN  /\ allOk' = (allOk /\ out = "ok")
                   /\ IF out = "ok" /\ found # {}
                      THEN /\ tdPending' = found
                           /\ pc' = "td_del_prefix"
                           /\ UNCHANGED tdZones
                      ELSE NextZone
    /\ UNCHANGED <<envVars, tunVars, putConfigs, dnsPosts, headers, naming, tdEnumOut,
                   provVars, locVars, tdCaller, tdDeleted, tdHist, runHist,
                   exitCode>>

\* part 2, the deletes of the second listing
TdDelPrefix ==
    /\ pc = "td_del_prefix"
    /\ DeleteRecord(NextZone)
    /\ UNCHANGED <<envVars, tunVars, putConfigs, dnsPosts, headers, naming, tdEnumOut,
                   tunnelExists, locVars, tdCaller, tdRuns, tdDone,
                   tdRaised, nTunnelDel, termSent, scanned, reported, runHist,
                   exitCode>>

\* part 3: DELETE cfd_tunnel/<tunnel_id>
TdDeleteTunnel ==
    /\ pc = "td_tunnel"
    /\ \E out \in {"ok", "err", "raise"} :
          /\ allOk' = (allOk /\ out = "ok")
          /\ tunnelExists' = (tunnelExists /\ out # "ok")
    /\ nTunnelDel' = nTunnelDel + 1
    /\ pc' = "td_report"
    /\ UNCHANGED <<envVars, tunVars, putConfigs, dnsPosts, headers, naming, tdEnumOut,
                   dnsRecords, locVars, tdVars, tdRuns, tdDone, tdRaised,
                   dnsDelReq, termSent, scanned, reported, runHist, exitCode>>

\* cleanup: the "Cleanup complete" line, then the caller goes on:
\* signal_handler with sys.exit(0), the exit function by returning
TdReport ==
    /\ pc = "td_report"
    /\ reported' = tdDeleted
    /\ tdDone' = tdDone + 1
    /\ tdCaller' = "none"
    /\ IF tdCaller = "signal"
       THEN pc' = "exiting" /\ exitCode' = 0
       ELSE pc' = "exited" /\ UNCHANGED exitCode
    /\ UNCHANGED <<envVars, tunVars, putConfigs, dnsPosts, headers, naming, tdEnumOut,
                   provVars, locVars, tdZones, tdPending, tdDeleted,
                   tdRuns, tdRaised, nTunnelDel, dnsDelReq, termSent, scanned,
                   runHist, allOk>>

\* ----------------------------------------------------------- specification
Next ==
    \/ GetApiKey
    \/ GetAccountId
    \/ CreateTunnel
    \/ FetchToken
    \/ WriteTokenFile
    \/ GetAccountDomain
    \/ PutIngress
    \/ DnsCreate
    \/ Ready
    \/ Launch
    \/ RegisterAtexit
    \/ RegisterSignal
    \/ SubprocessExits
    \/ WaitReturns
    \/ Sigint
    \/ RunAtexit
    \/ TdRemove
    \/ TdTerminate
    \/ TdEnum
    \/ TdListExact
    \/ TdDelExact
    \/ TdListPrefix
    \/ TdDelPrefix
    \/ TdDeleteTunnel
    \/ TdReport

Spec == Init /\ [][Next]_vars

\* ------------------------------------------------------------ tunnel naming
\* main: k of random.choices
RandomNameLen == 8
\* string.ascii_lowercase, cut down to its first and last letter
Letters == { "a", "z" }
RandomNames == [1..RandomNameLen -> Letters]

\* the tunnel_name arguments a user supplies (characters)
SuppliedNames == { <<"d", "e", "m", "o">>, <<"d", "-", "1">> }

DigitChars == <<"0", "1", "2", "3", "4", "5", "6", "7", "8", "9">>
\* str() of a non-negative int, as the f-string renders the timestamp
RECURSIVE Digits(_)
Digits(n) ==
    IF n < 10 THEN <<DigitChars[n + 1]>>
    ELSE Digits(n \div 10) \o <<DigitChars[(n % 10) + 1]>>

\* int(time.time()) of a clock that stands at tick t
timestamp(t) == t \div TicksPerSecond

\* main: the tunnel name of a run started at tick t whose random draw is rnd
TunnelNameOf(given, name, no_timestamp, t, rnd) ==
    IF ~given THEN rnd
    ELSE IF no_timestamp THEN name
         ELSE name \o <<"-">> \o Digits(timestamp(t))

\* two runs of main() with the same arguments, the second not before the
\* first; t1 and t2 are the clock readings of the runs that read the clock
InitName ==
    /\ apiKey = <<"t", "o", "k">>
    /\ tunnel_name = <<"demo">>
    /\ acctZones = << >>
    /\ args \in ArgSets
    /\ dnsRecords = {}
    /\ tunnels = {}
    /\ naming \in { [given |-> g, name |-> n, no_timestamp |-> f,
                     t1 |-> 0, t2 |-> 0, out |-> << >>] :
                    g \in BOOLEAN, n \in SuppliedNames \cup { << >> },
                    f \in BOOLEAN }
    /\ naming.given = (naming.name # << >>)
    /\ Idle

\* main: the naming block of one run
NameTunnel ==
    /\ Len(naming.out) < 2
    /\ \E t \in 0..MaxTick, rnd \in RandomNames :
          LET reads == naming.given /\ ~naming.no_timestamp
              nm    == TunnelNameOf(naming.given, naming.name,
                                    naming.no_timestamp, t, rnd)
          IN  /\ (Len(naming.out) = 1 /\ reads) => t >= naming.t1
              /\ naming' = [naming EXCEPT
                    !.out = Append(@, nm),
                    !.t1 = IF Len(naming.out) = 0 /\ reads THEN t ELSE @,
                    !.t2 = IF Len(naming.out) = 1 /\ reads THEN t ELSE @]
    /\ UNCHANGED <<envVars, provVars, locVars, tdVars, tdHist, runHist, pc,
                   exitCode, allOk, tunVars, putConfigs, dnsPosts, headers,
                   tdEnumOut>>

NextName == NameTunnel

SpecName == InitName /\ [][NextName]_vars

\* ------------------------------------------------------ credential resolver
\* the characters get_headers tells apart, and a character of no meaning
KeyChars == { "a", "@", ".", ":" }
KeyStrings == UNION { [1..n -> KeyChars] : n \in 0..MaxKeyLen }

\* a run started with any key string, followed up to its first remote call
InitCred ==
    /\ apiKey \in KeyStrings
    /\ tunnel_name = <<"demo">>
    /\ acctZones = << >>
    /\ args = [port |-> 8080, local_addr |-> "localhost"]
    /\ dnsRecords = {}
    /\ tunnels = {}
    /\ naming = NoNaming
    /\ Idle

NextCred ==
    \/ GetApiKey
    \/ GetAccountId
    \/ RunAtexit

SpecCred == InitCred /\ [][NextCred]_vars

\* -------------------------------------------------------- tunnel creation
\* the tunnels the account holds before the run: one of the requested name
\* and one of another name
PreTunnels(tn) == { [name |-> tn, id |-> "tid-0"],
                    [name |-> <<"other">>, id |-> "tid-9"] }

LegacyCreateTunnel_always_creates ==
    /\ pc = "tunnel"
    /\ Len(legacyRet) < MaxLegacyCalls
    /\ nList' = nList + 1
    /\ \E listOut \in {"ok", "err", "raise"} :
          IF listOut # "ok"
          THEN /\ Fatal("tunnel")
               /\ allOk' = FALSE
               /\ UNCHANGED <<tunnels, nLegacyCreate, legacyRet>>
          ELSE IF FALSE
          THEN /\ legacyRet' = Append(legacyRet,
                      (CHOOSE t \in tunnels : t.name = tunnel_name).id)
               /\ UNCHANGED <<tunnels, nLegacyCreate, pc, exitCode, fatalAt, allOk>>
          ELSE /\ nLegacyCreate' = nLegacyCreate + 1
               /\ \E out \in {"ok", "err", "noid", "raise"} :
                     IF out = "ok"
                     THEN LET id == NewTunnelId(tunnels)
                          IN /\ tunnels' = tunnels \cup
                                   { [name |-> tunnel_name, id |-> id] }
                             /\ legacyRet' = Append(legacyRet, id)
                             /\ UNCHANGED <<pc, exitCode, fatalAt, allOk>>
                     ELSE /\ Fatal("tunnel")
                          /\ allOk' = FALSE
                          /\ UNCHANGED <<tunnels, legacyRet>>
    /\ UNCHANGED <<envVars, tunnel_id, nCfdCreate, putConfigs, dnsPosts,
                   headers, naming, tdEnumOut, provVars, locVars, tdVars,
                   tdHist, steps, sigSeen, sigHandled, tokenWritten>>

\* create_tunnel, called by a process that stands where main() creates its
\* tunnel: list the tunnels, return the id of the one named tunnel_name,
\* else POST a new one; a non-200 answer ends the process
LegacyCreateTunnel ==
    /\ pc = "tunnel"
    /\ Len(legacyRet) < MaxLegacyCalls
    /\ nList' = nList + 1
    /\ \E listOut \in {"ok", "err", "raise"} :
          IF listOut # "ok"
          THEN /\ Fatal("tunnel")
               /\ allOk' = FALSE
               /\ UNCHANGED <<tunnels, nLegacyCreate, legacyRet>>
          ELSE IF \E t \in tunnels : t.name = tunnel_name
          THEN /\ legacyRet' = Append(legacyRet,
                      (CHOOSE t \in tunnels : t.name = tunnel_name).id)
               /\ UNCHANGED <<tunnels, nLegacyCreate, pc, exitCode, fatalAt, allOk>>
          ELSE /\ nLegacyCreate' = nLegacyCreate + 1
               /\ \E out \in {"ok", "err", "noid", "raise"} :
                     IF out = "ok"
                     THEN LET id == NewTunnelId(tunnels)
                          IN /\ tunnels' = tunnels \cup
                                   { [name |-> tunnel_name, id |-> id] }
                             /\ legacyRet' = Append(legacyRet, id)
                             /\ UNCHANGED <<pc, exitCode, fatalAt, allOk>>
                     ELSE /\ Fatal("tunnel")
                          /\ allOk' = FALSE
                          /\ UNCHANGED <<tunnels, legacyRet>>
    /\ UNCHANGED <<envVars, tunnel_id, nCfdCreate, putConfigs, dnsPosts,
                   headers, naming, tdEnumOut, provVars, locVars, tdVars,
                   tdHist, steps, sigSeen, sigHandled, tokenWritten>>

InitTunnel ==
    /\ apiKey = <<"t", "o", "k">>
    /\ tunnel_name \in TunnelNames
    /\ acctZones = << >>
    /\ args = [port |-> 8080, local_addr |-> "localhost"]
    /\ dnsRecords = {}
    /\ tunnels \in SUBSET PreTunnels(tunnel_name)
    /\ naming = NoNaming
    /\ Idle

NextTunnel ==
    \/ GetApiKey
    \/ GetAccountId
    \/ CreateTunnel
    \/ LegacyCreateTunnel
    \/ RunAtexit

SpecTunnel == InitTunnel /\ [][NextTunnel]_vars

TypeOK ==
    /\ pc \in MainPcs \cup { "exiting", "exited", "td_remove", "td_terminate",
                            "td_enum", "td_list_exact", "td_del_exact",
                            "td_list_prefix", "td_del_prefix", "td_tunnel",
                            "td_report" }
    /\ exitCode \in {-1, 0, 1, 130}
    /\ proc \in {"none", "running", "exited"}
    /\ tdRuns \in 0..2

\* ------------------------------------------------------------------ claims
Issued(name) == \E i \in DOMAIN steps : steps[i].step = name
StepOut(name) ==
    IF Issued(name)
    THEN steps[CHOOSE i \in DOMAIN steps : steps[i].step = name].out
    ELSE "none"
NoDnsDelete == \A i \in RecIds : dnsDelReq[i] = 0

\* C1: whatever teardown triggers fire, the cleanup body runs at most once
\* in a run: at most one delete-tunnel request and at most one delete
\* request per DNS record.
C1_TeardownAtMostOnce ==
    /\ tdRuns <= 1
    /\ nTunnelDel <= 1
    /\ \A i \in RecIds : dnsDelReq[i] <= 1

\* C2: a process that launched the subprocess and ends because the
\* subprocess ended, because signal_handler ran or because of an exception
\* has, when it has exited, removed the token file, terminated the
\* subprocess unless it had ended, requested a DNS listing and issued the
\* delete-tunnel request.
C2_TeardownOnEveryPath ==
    (pc = "exited" /\ proc # "none" /\ (sigSeen => sigHandled)) =>
        /\ ~tokenFile
        /\ termSent >= 1 \/ proc = "exited"
        /\ scanned # {}
        /\ nTunnelDel >= 1

\* C3: a process that wrote the token file and ends without receiving a
\* signal (among others: on a fatal error in domain discovery, ingress
\* configuration or launch) leaves no token file behind.
C3_TokenFileRemoved ==
    (pc = "exited" /\ tokenWritten /\ ~sigSeen) => ~tokenFile

ClaimedOrder ==
    <<"account", "tunnel", "token", "write", "put", "domain", "dns", "ready">>
CodeOrder ==
    <<"account", "tunnel", "token", "write", "domain", "put", "dns", "ready">>
FatalSteps == {"account", "tunnel", "token", "write"}
InOrder(order) ==
    /\ Len(steps) <= Len(order)
    /\ \A i \in DOMAIN steps : steps[i].step = order[i]
Gated ==
    \A i \in DOMAIN steps :
        (i < Len(steps) /\ steps[i].step \in FatalSteps) => steps[i].out = "ok"

\* C4 as claimed: the provisioning steps start in the order account, tunnel,
\* token fetch, token write, ingress PUT, domain discovery, DNS creation,
\* Ready, and nothing follows a fatal step that failed.
C4_ClaimedOrder == InOrder(ClaimedOrder) /\ Gated

\* C4 as amended: the order is account, tunnel, token fetch, token write,
\* domain discovery, ingress PUT, DNS creation, Ready, and nothing follows
\* a fatal step that failed.
C4_ProvisioningOrder == InOrder(CodeOrder) /\ Gated

C4_Witness == pc = "launch" /\ Len(steps) = Len(CodeOrder)

\* C5: once account discovery, tunnel creation or the token fetch has
\* failed, the run is exiting with code 1, that step is the last call of
\* provisioning, no token file was written, no subprocess launched and no
\* cleanup ran or issued a delete; after a failed token fetch the tunnel
\* still exists.
C5_EarlyAbort ==
    \A i \in DOMAIN steps :
        (steps[i].step \in {"account", "tunnel", "token"} /\ steps[i].out # "ok") =>
            /\ i = Len(steps)
            /\ pc \in {"exiting", "exited"}
            /\ exitCode = 1
            /\ ~tokenFile /\ ~tokenWritten
            /\ proc = "none"
            /\ tdRuns = 0 /\ nTunnelDel = 0 /\ NoDnsDelete
            /\ steps[i].step = "token" => tunnelExists

C5_Witness ==
    /\ pc = "exited"
    /\ StepOut("token") = "err"
    /\ tunnelExists
    /\ exitCode = 1

\* C6: no exception leaves cleanup(), and every execution of cleanup()
\* that is over has issued its delete-tunnel request.
C6_TeardownFaultTolerant ==
    /\ ~tdRaised
    /\ tdCaller = "none" => nTunnelDel >= tdRuns

\* C7: a process whose signal handler ran exits with code 0 and a process
\* aborted by a fatal error exits with code 1, whatever cleanup() does.
C7_ExitCodeKept ==
    pc = "exited" =>
        /\ sigHandled => exitCode = 0
        /\ fatalAt # "none" => exitCode = 1

\* C8: after an error response to the ingress PUT the run is not aborted
\* for it: unless a signal or a failed launch ends the run, it is at the
\* DNS creation, or has issued it and is at Ready, or has passed Ready and
\* then either stands before the launch or has launched the subprocess.
C8_PutNonFatal ==
    StepOut("put") = "err" =>
        /\ fatalAt # "put"
        /\ (~sigSeen /\ fatalAt = "none") =>
              \/ pc = "dns"
              \/ Issued("dns") /\ pc = "ready"
              \/ Issued("dns") /\ Issued("ready") /\ (pc = "launch" \/ proc # "none")

C8_Witness ==
    /\ StepOut("put") = "err"
    /\ Issued("dns")
    /\ proc = "running"

\* C9: the DNS creation never aborts the run, whether it is answered with
\* success, "record already exists", another error or an exception: unless
\* a signal or a failed launch ends the run it goes on to Ready; and a
\* creation repeated with identical input leaves one record of that name.
C9_DnsNeverFatal ==
    /\ fatalAt # "dns"
    /\ (Issued("dns") /\ ~sigSeen /\ fatalAt = "none") =>
          (pc = "ready" \/ Issued("ready"))
    /\ Cardinality({ r \in dnsRecords :
            r.zone = zone_id /\ r.name = Expand(tunnel_name, zone_id) }) <= 1

C9_Witness ==
    /\ StepOut("dns") = "exists"
    /\ proc = "running"

\* C10: when every call of the run succeeded and cleanup() has returned,
\* the DNS record the run created no longer exists.
C10_CreatedRecordDeleted ==
    (pc = "exited" /\ allOk /\ StepOut("dns") = "ok" /\ tdDone >= 1) =>
        ~ \E r \in dnsRecords : r.id = RunRecordId

\* C11: when the zone listing of get_account_domain answers with a zone
\* list, the hostname is the tunnel name followed by the name of the first
\* zone of that list, or by the default domain when the list is empty; and
\* an empty list never aborts the run.
C11_HostnameFromFirstZone ==
    /\ StepOut("domain") = "ok" =>
          hostname = tunnel_name \o (IF acctZones # << >>
                                     THEN ZoneName(acctZones[1])
                                     ELSE DefaultDomain)
    /\ (StepOut("domain") = "ok" /\ acctZones = << >>) => fatalAt # "domain"

C11_Witness ==
    /\ StepOut("domain") = "ok"
    /\ Len(acctZones) = 2
    /\ hostname = tunnel_name \o ZoneName(acctZones[1])
    /\ Issued("put")

\* C12: a run that reached the DNS step has issued exactly one DNS record
\* creation request, of type CNAME, proxied, with ttl auto (1) and content
\* <tunnel_id>.cfargotunnel.com, whose name is, in the zone it is sent to,
\* the hostname of the ingress rule, and that zone is the one whose name
\* was selected as the hostname's base domain.
C12_DnsRecordMatchesHostname ==
    Issued("dns") =>
        /\ Len(dnsPosts) = 1
        /\ dnsPosts[1].data.type = "CNAME"
        /\ dnsPosts[1].data.proxied
        /\ dnsPosts[1].data.ttl = 1
        /\ dnsPosts[1].data.content = <<tunnel_id, "cfargotunnel.com">>
        /\ Expand(dnsPosts[1].data.name, dnsPosts[1].zone) = hostname
        /\ tunnel_name \o ZoneName(dnsPosts[1].zone) = hostname

\* C13: a supplied name with --no-timestamp is the tunnel name exactly;
\* without --no-timestamp two runs with the same supplied name started at
\* different times get different tunnel names, each the supplied name
\* followed by "-" and a timestamp; with no name supplied the tunnel name
\* is 8 lowercase letters.
C13_TunnelNaming ==
    /\ (naming.given /\ naming.no_timestamp) =>
          \A i \in DOMAIN naming.out : naming.out[i] = naming.name
    /\ (naming.given /\ ~naming.no_timestamp) =>
          /\ \A i \in DOMAIN naming.out :
                /\ Len(naming.out[i]) > Len(naming.name) + 1
                /\ SubSeq(naming.out[i], 1, Len(naming.name) + 1)
                      = naming.name \o <<"-">>
          /\ (Len(naming.out) = 2 /\ naming.t1 # naming.t2) =>
                naming.out[1] # naming.out[2]
    /\ ~naming.given =>
          \A i \in DOMAIN naming.out :
              /\ Len(naming.out[i]) = 8
              /\ \A j \in 1..8 : naming.out[i][j] \in Letters

\* C14: for a key string that contains "@", get_headers either returns the
\* email/key headers with both parts of the split on ":" non-empty or
\* fails; for a key string with neither "@" nor "." it returns the bearer
\* header carrying the string.
C14_CredentialClassification ==
    headers.kind # "none" =>
        /\ Contains(apiKey, "@") =>
              \/ headers.kind = "raise"
              \/ /\ headers.kind = "emailkey"
                 /\ headers.email # << >>
                 /\ headers.key # << >>
        /\ (~Contains(apiKey, "@") /\ ~Contains(apiKey, ".")) =>
              /\ headers.kind = "bearer"
              /\ headers.token = apiKey

\* C15: a run whose key is missing, or is split on ":" into other than two
\* parts, issues no remote call and creates no tunnel, token file, DNS
\* record or subprocess, and it exits with a non-zero code.
Malformed(k) == (Contains(k, "@") \/ Contains(k, ".")) /\ Count(k, ":") # 1
C15_BadCredentialFatal ==
    (apiKey = << >> \/ Malformed(apiKey)) =>
        /\ steps = << >>
        /\ nCfdCreate = 0 /\ putConfigs = << >> /\ dnsPosts = << >>
        /\ ~tunnelExists /\ ~tokenFile /\ ~tokenWritten /\ proc = "none"
        /\ ~ \E r \in dnsRecords : r.id = RunRecordId
        /\ pc \in {"api_key", "account", "exiting", "exited"}
        /\ pc = "exited" => exitCode \notin {-1, 0}

C15_Witness ==
    /\ Malformed(apiKey)
    /\ headers.kind = "raise"
    /\ pc = "exited"
    /\ exitCode = 1

\* C16: the ingress configuration a run sends has exactly two rules: the
\* first maps the run's hostname to http://<local_addr>:<port> of the
\* arguments, the last is the http_status:404 rule and has no hostname.
C16_IngressTwoRules ==
    /\ Issued("put") => Len(putConfigs) = 1
    /\ \A i \in DOMAIN putConfigs :
          LET ingress == putConfigs[i].ingress
          IN  /\ Len(ingress) = 2
              /\ ingress[1].hostname = hostname
              /\ ingress[1].service = [scheme |-> "http", addr |-> args.local_addr,
                                       port |-> args.port]
              /\ DOMAIN ingress[2] = {"service"}
              /\ ingress[2].service = "http_status:404"

C16_Witness ==
    /\ Len(putConfigs) = 1
    /\ putConfigs[1].ingress[1].service.port = 3000
    /\ StepOut("put") = "ok"
    /\ proc = "running"

\* C17: within one execution of cleanup() the steps follow one order: the
\* token file is gone and a running subprocess has been sent terminate
\* before any remote call; the zones are enumerated before any DNS listing;
\* DNS listings and DNS delete requests come before the delete-tunnel
\* request; the deleted-count is reported last, after which cleanup() is
\* over.
TdRank(p) ==
    CASE p = "td_remove" -> 1
      [] p = "td_terminate" -> 2
      [] p = "td_enum" -> 3
      [] p \in {"td_list_exact", "td_del_exact", "td_list_prefix", "td_del_prefix"} -> 4
      [] p = "td_tunnel" -> 5
      [] p = "td_report" -> 6
      [] OTHER -> 0
C17_TeardownOrder ==
    [][ /\ (TdRank(pc) > 0 /\ TdRank(pc') > 0) =>
              (tdRuns' = tdRuns /\ TdRank(pc') >= TdRank(pc))
        /\ (tokenFile /\ ~tokenFile') => pc = "td_remove"
        /\ termSent' # termSent => pc = "td_terminate"
        /\ TdRank(pc) >= 3 => (~tokenFile /\ (proc = "running" => termSent >= 1))
        /\ tdEnumOut' \notin {tdEnumOut, "none"} => pc = "td_enum"
        /\ TdRank(pc) >= 4 => tdEnumOut # "none"
        /\ (scanned' # scanned \/ dnsDelReq' # dnsDelReq) => TdRank(pc) = 4
        /\ (dnsRecords' # dnsRecords /\ dnsRecords' \subseteq dnsRecords)
              => TdRank(pc) = 4
        /\ nTunnelDel' # nTunnelDel => pc = "td_tunnel"
        /\ reported' # reported => pc = "td_report"
        /\ (pc = "td_report" /\ pc' # pc) => TdRank(pc') = 0
      ]_vars

C17_Witness ==
    /\ tdDone >= 1
    /\ reported >= 1
    /\ termSent >= 1
    /\ nTunnelDel >= 1
    /\ scanned # {}

\* C18: the deleted-count of an execution of cleanup() goes up by one with
\* every delete request that succeeded, by nothing else, and is the count
\* that is reported.
DeletedCountExact ==
    /\ tdRuns' = tdRuns =>
          tdDeleted' - tdDeleted = Cardinality(dnsRecords \ dnsRecords')
    /\ reported' # reported => reported' = tdDeleted

\* the records of a scanned zone that no delete request was issued for
Unrequested(match(_)) ==
    { r \in dnsRecords : r.zone \in scanned /\ match(r) /\ dnsDelReq[r.id] = 0 }

ClaimedMatch(r) == r.name = hostname \/ StartsWithDot(r.name, tunnel_name)
CodeMatch(r) ==
    \/ r.name = tunnel_name
    \/ Len(tunnel_name) = 1 /\ StartsWithDot(r.name, tunnel_name)

ScanOver == tdRuns = 1 /\ pc \in {"td_tunnel", "td_report"}
ZoneSet(zs) == { zs[i] : i \in DOMAIN zs }
\* from the enumeration on, cleanup() is left only through the DNS scan and
\* the delete-tunnel request
ProceedsToDelete ==
    /\ (pc = "td_enum" /\ pc' # pc) => TdRank(pc') \in {4, 5}
    /\ (TdRank(pc) = 4 /\ pc' # pc) => TdRank(pc') \in {4, 5}
    /\ (pc = "td_tunnel" /\ pc' # pc) => nTunnelDel' = nTunnelDel + 1

\* C19 as claimed: when the zone enumeration of teardown succeeds exactly
\* the zones it returns are scanned, when it fails exactly the fallback
\* zone is scanned, and in both cases teardown goes on to the DNS scan and
\* the tunnel deletion.
C19_ClaimedZones ==
    /\ [](ScanOver => scanned = (IF tdEnumOut = "listed"
                                 THEN ZoneSet(acctZones) ELSE {zone_id}))
    /\ [](pc = "td_list_exact" => tdZones # << >>)
    /\ [][ProceedsToDelete]_vars

\* C19 as amended: when the zone enumeration of teardown succeeds and
\* returns at least one zone exactly the zones it returns are scanned; when
\* it fails or returns no zone exactly the fallback zone is scanned; in all
\* cases teardown goes on to the DNS scan and the tunnel deletion.
C19_ZoneSelection ==
    /\ [](ScanOver => scanned = (IF tdEnumOut = "listed" /\ acctZones # << >>
                                 THEN ZoneSet(acctZones) ELSE {zone_id}))
    /\ [](pc = "td_list_exact" => tdZones # << >>)
    /\ [][(pc = "td_enum" /\ pc' # pc) => pc' = "td_list_exact"]_vars
    /\ [][ProceedsToDelete]_vars

C19_Witness ==
    /\ tdRuns = 1
    /\ pc = "td_report"
    /\ tdEnumOut = "failed"
    /\ Len(acctZones) = 2
    /\ scanned = {zone_id}
    /\ nTunnelDel = 1

\* C20: create_tunnel issues a create request only when the listing holds
\* no tunnel of the requested name and otherwise returns that tunnel's id,
\* so the calls of it that return yield one and the same id with at most
\* one create request; create_tunnel_with_credentials issues exactly one
\* create request in a run, and no listing.
LegacyCreatesOnlyWhenAbsent ==
    /\ nLegacyCreate' # nLegacyCreate =>
          ~ \E t \in tunnels : t.name = tunnel_name
    /\ (Len(legacyRet') > Len(legacyRet) /\ nLegacyCreate' = nLegacyCreate) =>
          \E t \in tunnels : /\ t.name = tunnel_name
                             /\ t.id = legacyRet'[Len(legacyRet')]
CredentialedCreatesFresh ==
    nCfdCreate' # nCfdCreate =>
        /\ nCfdCreate' = nCfdCreate + 1
        /\ nList' = nList
        /\ pc = "tunnel"
C20_TunnelCreationPolicy ==
    /\ [](/\ \A i, j \in DOMAIN legacyRet : legacyRet[i] = legacyRet[j]
          /\ nLegacyCreate <= 1
          /\ nCfdCreate = (IF Issued("tunnel") THEN 1 ELSE 0))
    /\ [][LegacyCreatesOnlyWhenAbsent]_vars
    /\ [][CredentialedCreatesFresh]_vars

C20_Witness ==
    /\ Len(legacyRet) = 2
    /\ nLegacyCreate = 1
    /\ nList = 2
    /\ nCfdCreate = 1

\* C21: the subprocess never runs while neither the exit function nor
\* signal_handler is registered, and a process that received an interrupt
\* after launching the subprocess has, when it has exited, removed the
\* token file, terminated the subprocess unless it had ended, scanned for
\* DNS records and issued the delete-tunnel request.
C21_SubprocessAlwaysGuarded ==
    /\ proc = "running" => (atexitRegistered \/ sigHandler = "custom")
    /\ (pc = "exited" /\ sigSeen /\ proc # "none") =>
          /\ ~tokenFile
          /\ termSent >= 1 \/ proc = "exited"
          /\ scanned # {}
          /\ nTunnelDel >= 1

\* C22: no delete request is ever issued for a DNS record that the DNS
\* creation step of this run did not create, whatever records exist in the
\* zones before the run.
C22_OnlyOwnRecordsDeleted ==
    \A i \in RecIds \ {RunRecordId} : dnsDelReq[i] = 0

====
